---------------------------- MODULE Spec2Model ----------------------------
(***************************************************************************)
(* Model of redact_phi.py: the pixel normalization pipeline of             *)
(* extract_text_from_dicom, the redactor redact_text_regions and the box   *)
(* merger _merge_overlapping_boxes.                                        *)
(*                                                                         *)
(* Arrays are records [shape, dtype, den, px]: px is the row-major flat    *)
(* list of samples (channel fastest), and a sample's value is px[i] / den  *)
(* (den > 1 only for the float64 output of pydicom's windowing).           *)
(* Float arithmetic is modelled by exact rational arithmetic.              *)
(***************************************************************************)
EXTENDS Integers, Sequences, FiniteSets, TLC

VARIABLES
    \* ---- extract_text_from_dicom / main ----
    pc,                 \* position in extract_text_from_dicom and main
    ds,                 \* the DICOM dataset read at line 30, with transform_mode
    pixel_array,        \* the working array
    image_for_output,   \* the redaction target, None until set
    clahe_applied,      \* first CLAHE result (Strategy B)
    wl,                 \* window_center, window_width, lower, upper (scaled)
    normalized,         \* image_8bit (Strategy A) / normalized (Strategy B)
    enhanced_stretched, \* the detection raster
    divZero,            \* a rescale divided by a zero denominator
    error,              \* the exception that ended the pipeline, if any
    extracted_text,     \* the text returned at line 288
    compiled_with_cuda, \* line 226 / 231
    gpu_count,          \* line 227 / 234
    use_gpu,            \* line 228 / 237 / 247
    set_calls,          \* the calls of paddle.set_device made so far
    paddle_device,      \* the device paddle runs on ("default" until one is set)
    \* ---- redact_text_regions ----
    rpc,                \* "idle", "once" (redacted), "twice" (redacted again)
    image,              \* the raster given to redact_text_regions
    detections,         \* the detection list given to it
    padding,            \* its padding argument
    redacted,           \* the raster it returned
    redacted2,          \* what it returned for (redacted, detections, padding)
    \* ---- _merge_overlapping_boxes ----
    mpc,                \* "idle", "loop", "done"
    boxes,              \* the argument
    margin,             \* the margin argument
    sorted_boxes,       \* line 397
    merged,             \* line 398
    k,                  \* index of the next rectangle of the loop at line 400
    \* ---- _parse_ocr_results ----
    ppc,                \* "idle", "dict", "legacy", "done", "raised"
    results,            \* the argument: what the detector returned
    per_image,          \* line 299
    idx,                \* index of the next entry of the loop at line 306 / 320
    parsed,             \* the list called detections in _parse_ocr_results
    raised              \* the exception that left _parse_ocr_results, if any

deviceVars == <<compiled_with_cuda, gpu_count, use_gpu, set_calls, paddle_device>>
pipeVars   == <<pc, ds, pixel_array, image_for_output, clahe_applied, wl,
                normalized, enhanced_stretched, divZero, error, extracted_text,
                deviceVars>>
redactVars == <<rpc, image, detections, padding, redacted, redacted2>>
mergeVars  == <<mpc, boxes, margin, sorted_boxes, merged, k>>
parseVars  == <<ppc, results, per_image, idx, parsed, raised>>
vars       == <<pipeVars, redactVars, mergeVars, parseVars>>

\* Python's None, as an array / window / raster value
None == [shape |-> <<>>, dtype |-> "None", den |-> 1, px |-> <<>>]

-----------------------------------------------------------------------------
(* Generic helpers *)

Range(s) == {s[i] : i \in DOMAIN s}

Min2(a, b) == IF a <= b THEN a ELSE b
Max2(a, b) == IF a >= b THEN a ELSE b

SeqMin(s) == CHOOSE m \in Range(s) : \A x \in Range(s) : m <= x
SeqMax(s) == CHOOSE m \in Range(s) : \A x \in Range(s) : m >= x

\* All sequences over S of length 0..n
SeqsUpTo(S, n) == UNION {[1..m -> S] : m \in 0..n}

-----------------------------------------------------------------------------
(* _merge_overlapping_boxes: rectangles are <<x, y, w, h>> *)

\* line 397: sorted(boxes, key=lambda b: (b[1], b[0])), a stable sort
KeyLE(a, b) == a[2] < b[2] \/ (a[2] = b[2] /\ a[1] <= b[1])

RECURSIVE InsertBox(_, _)
InsertBox(b, s) ==
    IF s = <<>> THEN <<b>>
    ELSE IF KeyLE(s[Len(s)], b) THEN Append(s, b)
    ELSE Append(InsertBox(b, SubSeq(s, 1, Len(s) - 1)), s[Len(s)])

RECURSIVE SortBoxes(_)
SortBoxes(bs) ==
    IF bs = <<>> THEN <<>>
    ELSE InsertBox(bs[Len(bs)], SortBoxes(SubSeq(bs, 1, Len(bs) - 1)))

\* lines 411-412: overlap or within margin on both axes
NearAxisOnly(b, m, mg) ==
    b[1] <= m[1] + m[3] + mg /\ b[1] + b[3] >= m[1] - mg

Near(b, m, mg) ==
    /\ b[1] <= m[1] + m[3] + mg /\ b[1] + b[3] >= m[1] - mg
    /\ b[2] <= m[2] + m[4] + mg /\ b[2] + b[4] >= m[2] - mg

\* A merge that keeps the group as it was and drops the rectangle
UnionBoxKeepsGroup(b, m) == m

\* lines 414-418: the union bounding box
UnionBox(b, m) ==
    LET nx  == Min2(b[1], m[1])
        ny  == Min2(b[2], m[2])
        nx2 == Max2(b[1] + b[3], m[1] + m[3])
        ny2 == Max2(b[2] + b[4], m[2] + m[4])
    IN  <<nx, ny, nx2 - nx, ny2 - ny>>

\* lines 400-423: one iteration of the loop: first match wins
MergeOne(mgd, b, mg) ==
    LET hits == {i \in DOMAIN mgd : Near(b, mgd[i], mg)}
    IN  IF hits = {} THEN Append(mgd, b)
        ELSE LET i == CHOOSE j \in hits : \A j2 \in hits : j <= j2
             IN  [mgd EXCEPT ![i] = UnionBox(b, mgd[i])]

RECURSIVE MergeFold(_, _, _)
MergeFold(mgd, s, mg) ==
    IF s = <<>> THEN mgd
    ELSE MergeFold(MergeOne(mgd, s[1], mg), Tail(s), mg)

\* lines 381-425, as a function
MergeOverlappingBoxes(bs, mg) ==
    IF bs = <<>> THEN <<>> ELSE MergeFold(<<>>, SortBoxes(bs), mg)

\* margin=5, line 381
DefaultMargin == 5

-----------------------------------------------------------------------------
(* redact_text_regions *)

\* A detection is [bboxType, bbox, text, conf]: bboxType is the Python type
\* of the bbox ("None", "list" or "ndarray"), bbox a sequence of points
\* <<x, y>>, text a sequence of characters.
Whitespace == {" ", "\t", "\n"}

\* not text.strip()
IsBlank(text) == \A i \in DOMAIN text : text[i] \in Whitespace

Height(img)   == img.shape[1]
Width(img)    == img.shape[2]
Channels(img) == IF Len(img.shape) = 3 THEN img.shape[3] ELSE 1

\* The k-th smallest element of s (1-based), as np.median's sort finds it
CountLT(s, v) == Cardinality({i \in DOMAIN s : s[i] < v})
CountLE(s, v) == Cardinality({i \in DOMAIN s : s[i] <= v})
Kth(s, n) == CHOOSE v \in Range(s) : CountLT(s, v) < n /\ CountLE(s, v) >= n

\* np.median(s), cast to an unsigned integer dtype: the mean of the two
\* middle elements for an even count, truncated
MedianCast(s) ==
    LET n == Len(s)
    IN  IF n % 2 = 1 THEN Kth(s, (n + 1) \div 2)
        ELSE (Kth(s, n \div 2) + Kth(s, n \div 2 + 1)) \div 2

\* The samples of channel ch (0-based) of img
ChannelSamples(img, ch) ==
    LET c == Channels(img)
        n == Height(img) * Width(img)
    IN  [i \in 1..n |-> img.px[(i - 1) * c + ch + 1]]

\* lines 343-349: the fill, one value per channel
MedianVal(img) ==
    [ch \in 0..(Channels(img) - 1) |-> MedianCast(ChannelSamples(img, ch))]

\* lines 359-366: the bounding rectangle of one polygon
BoundingBox(bbox) ==
    LET xs == [i \in DOMAIN bbox |-> bbox[i][1]]
        ys == [i \in DOMAIN bbox |-> bbox[i][2]]
    IN  <<SeqMin(xs), SeqMin(ys), SeqMax(xs) - SeqMin(xs), SeqMax(ys) - SeqMin(ys)>>

\* lines 355-358 and 365: a detection that yields a rectangle
YieldsBox(d) ==
    /\ ~IsBlank(d.text)
    /\ d.bboxType = "list"
    /\ Len(d.bbox) >= 4
    /\ BoundingBox(d.bbox)[3] > 0
    /\ BoundingBox(d.bbox)[4] > 0

\* lines 351-366
RECURSIVE BoxesOf(_)
BoxesOf(dets) ==
    IF dets = <<>> THEN <<>>
    ELSE LET rest == BoxesOf(SubSeq(dets, 1, Len(dets) - 1))
             d    == dets[Len(dets)]
         IN  IF YieldsBox(d) THEN Append(rest, BoundingBox(d.bbox)) ELSE rest

\* Python's slice a[lo:hi] of a length-n axis: index i (0-based) is taken
SliceIndex(j, n) == IF j < 0 THEN Max2(j + n, 0) ELSE Min2(j, n)

SliceHas(i, lo, hi, n) == SliceIndex(lo, n) <= i /\ i < SliceIndex(hi, n)

\* lines 372-376: pixel (r, c), 0-based, lies in the slice painted for box b
\* an inclusive end of the painted slice
PaintedInclusive(img, b, pad, r, c) ==
    /\ SliceHas(c, Max2(0, b[1] - pad), Min2(Width(img), b[1] + b[3] + pad) + 1, Width(img))
    /\ SliceHas(r, Max2(0, b[2] - pad), Min2(Height(img), b[2] + b[4] + pad) + 1, Height(img))

Painted(img, b, pad, r, c) ==
    /\ SliceHas(c, Max2(0, b[1] - pad), Min2(Width(img), b[1] + b[3] + pad), Width(img))
    /\ SliceHas(r, Max2(0, b[2] - pad), Min2(Height(img), b[2] + b[4] + pad), Height(img))

\* lines 368-376: the copy with every merged rectangle painted
PaintAll(img, bs, pad, fill) ==
    LET c == Channels(img)
        w == Width(img)
    IN  [img EXCEPT !.px =
            [i \in DOMAIN img.px |->
                LET ch  == (i - 1) % c
                    pos == (i - 1) \div c
                IN  IF \E j \in DOMAIN bs : Painted(img, bs[j], pad, pos \div w, pos % w)
                    THEN fill[ch] ELSE img.px[i]]]

\* lines 335-378
RedactTextRegions(img, dets, pad) ==
    LET bs0 == BoxesOf(dets)
        bs  == IF bs0 # <<>> THEN MergeOverlappingBoxes(bs0, DefaultMargin) ELSE bs0
    IN  PaintAll(img, bs, pad, MedianVal(img))

-----------------------------------------------------------------------------
(* extract_text_from_dicom: frame selection, lines 37-62 *)

NDim(d) == Len(d.frames[1].shape) + (IF d.multiframe THEN 1 ELSE 0)

\* The pixel (0-based position p) of a c-channel array, as a sequence
PixelAt(arr, c, p) == [j \in 1..c |-> arr.px[p * c + j]]

\* cv2.COLOR_RGB2BGR / cv2.COLOR_RGBA2BGR: three channels, reversed
ToBGR(arr) ==
    LET c == Channels(arr)
        n == Height(arr) * Width(arr)
    IN  [shape |-> <<Height(arr), Width(arr), 3>>, dtype |-> arr.dtype, den |-> 1,
         px |-> [i \in 1..(n * 3) |->
                    PixelAt(arr, c, (i - 1) \div 3)[3 - ((i - 1) % 3)]]]

\* cv2.COLOR_RGB2GRAY / cv2.COLOR_RGBA2GRAY: 0.299 R + 0.587 G + 0.114 B, rounded
ToGray(arr) ==
    LET c == Channels(arr)
        n == Height(arr) * Width(arr)
    IN  [shape |-> <<Height(arr), Width(arr)>>, dtype |-> arr.dtype, den |-> 1,
         px |-> [i \in 1..n |->
                    LET q == PixelAt(arr, c, i - 1)
                    IN  (299 * q[1] + 587 * q[2] + 114 * q[3] + 500) \div 1000]]

\* lines 40-62: the frame that is worked on
SelectedFrame(d) == d.frames[1]

\* lines 47-50
OutputOfFrame(f) ==
    IF Len(f.shape) = 3 /\ f.shape[3] \in {3, 4} THEN ToBGR(f) ELSE None

\* lines 54-57
GrayOfFrame(f) ==
    IF Len(f.shape) = 3 /\ f.shape[3] \in {3, 4} THEN ToGray(f) ELSE f

-----------------------------------------------------------------------------
(* extract_text_from_dicom: the two normalization strategies *)

\* A DICOM attribute is the sequence of its values, <<>> when absent
Present(tag) == tag # <<>>

\* lines 85-88, 152-155: the first of several values
First(tag) == tag[1]

\* pydicom's apply_voi_lut raises (line 77): LINEAR windowing needs width >= 1
VoiRaises(d) ==
    /\ Present(d.WindowCenter) /\ Present(d.WindowWidth)
    /\ First(d.WindowWidth) < 1

\* pydicom's apply_voi_lut (line 75) on an integer array: the array itself
\* without both window attributes, else DICOM's LINEAR windowing to
\* [0, 2^BitsStored - 1], a float64 array:
\*   y = ((x - (c - 0.5)) / (w - 1) + 0.5) * ymax   for the x in between
VoiLut(arr, d) ==
    IF ~(Present(d.WindowCenter) /\ Present(d.WindowWidth)) THEN arr
    ELSE LET c    == First(d.WindowCenter)
             w    == First(d.WindowWidth)
             ymax == 2 ^ d.BitsStored - 1
             below(x) == 2 * x <= 2 * c - w
             above(x) == 2 * x > 2 * c + w - 2
             mid  == \E i \in DOMAIN arr.px : ~below(arr.px[i]) /\ ~above(arr.px[i])
             dn   == IF mid THEN 2 * (w - 1) ELSE 1
         IN  [shape |-> arr.shape, dtype |-> "float64", den |-> dn,
              px |-> [i \in DOMAIN arr.px |->
                        LET x == arr.px[i]
                        IN  IF below(x) THEN 0
                            ELSE IF above(x) THEN ymax * dn
                            ELSE ymax * (2 * x - 2 * c + w)]]

\* A window is [scale, center, half, lower, upper] in units of 1 / scale,
\* scale = 2 * den of the array it is applied to; half is window_width / 2.
Window(sc, center, half) ==
    [scale |-> sc, center |-> center, half |-> half,
     lower |-> center - half, upper |-> center + half]

\* lines 101-102 from the metadata values (lines 98-99, 162-163)
MetaWindow(arr, d) ==
    Window(2 * arr.den, First(d.WindowCenter) * 2 * arr.den, First(d.WindowWidth) * arr.den)

\* lines 92-95: the window derived from the data
DataWindow(arr) ==
    LET mn == SeqMin(arr.px)
        mx == SeqMax(arr.px)
    IN  Window(2 * arr.den, mn + mx, IF mx > mn THEN mx - mn ELSE arr.den)

\* lines 159-160, 182-183: center 128, width 256
FullRangeWindow(arr) == Window(2 * arr.den, 128 * 2 * arr.den, 256 * arr.den)

\* lines 83-102
ResolveWindowStandard(arr, d) ==
    IF ~Present(d.WindowCenter) \/ ~Present(d.WindowWidth)
    THEN DataWindow(arr) ELSE MetaWindow(arr, d)

\* lines 146-186
ResolveWindowClaheDataDerived(arr, d) ==
    IF ~Present(d.WindowCenter) \/ ~Present(d.WindowWidth) THEN DataWindow(arr)
    ELSE IF d.BitsStored > 8 THEN FullRangeWindow(arr)
    ELSE MetaWindow(arr, d)

\* the metadata window reused whatever the bit depth
ResolveWindowClaheMeta(arr, d) ==
    IF ~Present(d.WindowCenter) \/ ~Present(d.WindowWidth) THEN FullRangeWindow(arr)
    ELSE MetaWindow(arr, d)

ResolveWindowClahe(arr, d) ==
    IF ~Present(d.WindowCenter) \/ ~Present(d.WindowWidth) THEN FullRangeWindow(arr)
    ELSE IF d.BitsStored > 8 THEN FullRangeWindow(arr)
    ELSE MetaWindow(arr, d)

\* np.clip(v, lower, upper) on a sample in window units
Clip(v, lo, hi) == Min2(Max2(v, lo), hi)

\* lines 106, 193: ((v - lower) / (upper - lower) * 255.0).astype(np.uint8)
\* for upper > lower: the cast drops the fraction
RescaleNearest(v, lo, hi) == (2 * (v - lo) * 255 + (hi - lo)) \div (2 * (hi - lo))

Rescale(v, lo, hi) == ((v - lo) * 255) \div (hi - lo)

\* The cast of nan (0.0 / 0.0) to uint8 is left open by the C standard
NanToUint8 == {0, 255}

\* lines 103-106, 192-193: the 8-bit arrays the window step can produce
WindowedImages(arr, w) ==
    IF w.upper = w.lower
    THEN {[shape |-> arr.shape, dtype |-> "uint8", den |-> 1,
           px |-> [i \in DOMAIN arr.px |-> u]] : u \in NanToUint8}
    ELSE {[shape |-> arr.shape, dtype |-> "uint8", den |-> 1,
           px |-> [i \in DOMAIN arr.px |->
                     Rescale(Clip(2 * arr.px[i], w.lower, w.upper), w.lower, w.upper)]]}

\* lines 109-110, 196-197: cv2.bitwise_not for MONOCHROME1
InvertAlways(arr, d) == [arr EXCEPT !.px = [i \in DOMAIN arr.px |-> 255 - arr.px[i]]]

Invert(arr, d) ==
    IF d.PhotometricInterpretation = "MONOCHROME1"
    THEN [arr EXCEPT !.px = [i \in DOMAIN arr.px |-> 255 - arr.px[i]]]
    ELSE arr

\* lines 123-130: the whole value range mapped to 0..255
FullRangeRescale(arr) ==
    IF arr.dtype = "uint8" THEN arr
    ELSE LET mn == SeqMin(arr.px)
             mx == SeqMax(arr.px)
         IN  [arr EXCEPT !.dtype = "uint8",
                         !.px = [i \in DOMAIN arr.px |->
                                   IF mx > mn THEN Rescale(arr.px[i], mn, mx)
                                   ELSE arr.px[i] % 256]]

\* lines 214-219: the contrast stretch of the detection raster
Stretch(arr) ==
    LET mn == SeqMin(arr.px)
        mx == SeqMax(arr.px)
    IN  IF mx > mn
        THEN [arr EXCEPT !.px = [i \in DOMAIN arr.px |-> Rescale(arr.px[i], mn, mx)]]
        ELSE arr

\* cv2's CLAHE (lines 135-136, 209-210) returns some uint8 raster of the same
\* shape; two of its outcomes are modelled: the input itself and the input
\* equalized over its whole histogram.
Equalized(arr) ==
    [arr EXCEPT !.px = [i \in DOMAIN arr.px |->
                          (255 * CountLE(arr.px, arr.px[i])) \div Len(arr.px)]]

ClaheOutcomes(arr) == {arr, Equalized(arr)}

\* lines 274-284
RECURSIVE AllText(_)
AllText(dets) ==
    IF dets = <<>> THEN <<>>
    ELSE LET rest == AllText(SubSeq(dets, 1, Len(dets) - 1))
             t    == dets[Len(dets)].text
         IN  IF IsBlank(t) THEN rest ELSE Append(rest, t)

RECURSIVE Join(_)
Join(ts) ==
    IF Len(ts) = 1 THEN ts[1]
    ELSE Join(SubSeq(ts, 1, Len(ts) - 1)) \o <<" ">> \o ts[Len(ts)]

NoTextPlaceholder ==
    <<"(", "N", "o", " ", "t", "e", "x", "t", " ",
      "d", "e", "t", "e", "c", "t", "e", "d", ")">>

\* line 284
ExtractedTextNoPlaceholder(dets) ==
    IF AllText(dets) # <<>> THEN Join(AllText(dets)) ELSE <<>>

ExtractedText(dets) ==
    IF AllText(dets) # <<>> THEN Join(AllText(dets)) ELSE NoTextPlaceholder

\* padding=10, line 450
MainPadding == 10

-----------------------------------------------------------------------------
(* _parse_ocr_results.  A Python value is a record of its type t and its     *)
(* content: the items v of a list, tuple or array, the characters s of a     *)
(* string, the number n, the four keys d the function reads of a dict.       *)

PyNone     == [t |-> "None", v |-> <<>>]
PyNum(n)   == [t |-> "num", n |-> n]
PyStr(s)   == [t |-> "str", s |-> s]
PyList(s)  == [t |-> "list", v |-> s]
PyArray(s) == [t |-> "ndarray", v |-> s]
PyDict(texts, scores, polys, bxs) ==
    [t |-> "dict", d |-> [rec_texts |-> texts, rec_scores |-> scores,
                          rec_polys |-> polys, rec_boxes |-> bxs]]

\* The outcome of an expression: the exception it raises, or its value
Ok(val)   == [exc |-> "none", val |-> val]
Raise(e)  == [exc |-> e, val |-> PyNone]

\* len(x) is defined
Sized(x) == x.t \in {"str", "list", "ndarray"}

\* len(x)
PyLen(x) == IF x.t = "str" THEN Len(x.s) ELSE Len(x.v)

\* x[i], counted from 1
Item(x, i) == IF x.t = "str" THEN PyStr(<<x.s[i]>>) ELSE x.v[i]

\* bool(x): "true", "false", or the ValueError of an array of several elements
Truth(x) ==
    CASE x.t = "None"           -> "false"
      [] x.t = "num"            -> IF x.n # 0 THEN "true" ELSE "false"
      [] x.t \in {"str", "list"} -> IF PyLen(x) > 0 THEN "true" ELSE "false"
      [] x.t = "dict"           -> "true"
      [] x.t = "ndarray"        ->
            IF Len(x.v) = 0 THEN "false"
            ELSE IF Len(x.v) = 1 /\ x.v[1].t = "num"
                 THEN (IF x.v[1].n # 0 THEN "true" ELSE "false")
                 ELSE "ValueError"

\* x or []
OrEmpty(x) ==
    CASE Truth(x) = "true"  -> Ok(x)
      [] Truth(x) = "false" -> Ok(PyList(<<>>))
      [] OTHER              -> Raise(Truth(x))

DigitChars == <<"0", "1", "2", "3", "4", "5", "6", "7", "8", "9">>

DigitOf(c) == (CHOOSE i \in DOMAIN DigitChars : DigitChars[i] = c) - 1

RECURSIVE DigitsValue(_)
DigitsValue(s) ==
    IF s = <<>> THEN 0
    ELSE 10 * DigitsValue(SubSeq(s, 1, Len(s) - 1)) + DigitOf(s[Len(s)])

\* float(x): a number, or a string that spells one (strings of digits here)
Float(x) ==
    CASE x.t = "num" -> Ok(x)
      [] x.t = "str" ->
            IF Len(x.s) > 0 /\ \A i \in DOMAIN x.s : x.s[i] \in Range(DigitChars)
            THEN Ok(PyNum(DigitsValue(x.s)))
            ELSE Raise("ValueError")
      [] OTHER -> Raise("TypeError")

\* str(x), for the values that take the place of (text, confidence) here
Str(x) ==
    CASE x.t = "str"  -> x.s
      [] x.t = "None" -> <<"N", "o", "n", "e">>
      [] x.t = "num" /\ x.n \in 0..9 -> <<DigitChars[x.n + 1]>>
      [] OTHER -> <<"<", x.t, ">">>

\* A parsed detection: the tuple (bbox, text, float(score))
Parsed(bbox, text, score) == [bbox |-> bbox, text |-> text, conf |-> score.n]

\* lines 296-299: the empty test and the choice of per_image
PerImage(res) ==
    CASE Truth(res) = "ValueError" -> Raise("ValueError")
      [] Truth(res) = "false"      -> Ok(PyNone)
      [] res.t = "dict"            -> Raise("KeyError")
      [] res.t = "num"             -> Raise("TypeError")
      [] OTHER -> IF Item(res, 1).t \in {"list", "dict"} THEN Ok(Item(res, 1))
                  ELSE Ok(res)

\* lines 301-304: the four keys of the structured form
DictKeys(d) ==
    LET texts  == OrEmpty(d.d.rec_texts)
        scores == OrEmpty(d.d.rec_scores)
        polys  == OrEmpty(d.d.rec_polys)
    IN  IF texts.exc # "none" THEN Raise(texts.exc)
        ELSE IF scores.exc # "none" THEN Raise(scores.exc)
        ELSE IF polys.exc # "none" THEN Raise(polys.exc)
        ELSE IF ~Sized(texts.val) THEN Raise("TypeError")
        ELSE Ok(PyDict(texts.val, scores.val, polys.val, d.d.rec_boxes))

\* line 307
ScoreOf(scores, i) ==
    IF ~Sized(scores) THEN Raise("TypeError")
    ELSE IF i <= PyLen(scores) THEN Ok(Item(scores, i))
    ELSE Ok(PyNum(0))

\* lines 311-313: an axis-aligned box becomes its four corners
BoxToPoly(row) ==
    IF ~Sized(row) THEN Raise("TypeError")
    ELSE IF PyLen(row) # 4 THEN Raise("ValueError")
    ELSE LET x_min == Item(row, 1)
             y_min == Item(row, 2)
             x_max == Item(row, 3)
             y_max == Item(row, 4)
         IN  Ok(PyList(<<PyList(<<x_min, y_min>>), PyList(<<x_max, y_min>>),
                         PyList(<<x_max, y_max>>), PyList(<<x_min, y_max>>)>>))

\* lines 308-315
BboxOf(polys, bxs, i) ==
    IF Truth(polys) = "ValueError" THEN Raise("ValueError")
    ELSE IF Truth(polys) = "true" /\ ~Sized(polys) THEN Raise("TypeError")
    ELSE IF Truth(polys) = "true" /\ i <= PyLen(polys)
    THEN (IF Item(polys, i).t = "ndarray" THEN Ok(PyList(Item(polys, i).v))
          ELSE Raise("AttributeError"))
    ELSE IF bxs.t = "None" THEN Ok(PyNone)
    ELSE IF ~Sized(bxs) THEN Raise("TypeError")
    ELSE IF i <= PyLen(bxs) THEN BoxToPoly(Item(bxs, i))
    ELSE Ok(PyNone)

\* lines 306-316: entry i of the structured form; dets is what it appends
DictEntry(d, i) ==
    LET score == ScoreOf(d.d.rec_scores, i)
        bbox  == BboxOf(d.d.rec_polys, d.d.rec_boxes, i)
        conf  == Float(score.val)
    IN  IF score.exc # "none" THEN [exc |-> score.exc, dets |-> <<>>]
        ELSE IF bbox.exc # "none" THEN [exc |-> bbox.exc, dets |-> <<>>]
        ELSE IF conf.exc # "none" THEN [exc |-> conf.exc, dets |-> <<>>]
        ELSE [exc |-> "none",
              dets |-> <<Parsed(bbox.val, Item(d.d.rec_texts, i), conf.val)>>]

\* lines 320-330: one entry of the legacy form
LegacyEntry(detection) ==
    IF detection.t = "list" /\ Len(detection.v) >= 2
    THEN LET bbox      == detection.v[1]
             text_conf == detection.v[2]
             isPair    == text_conf.t = "list" /\ Len(text_conf.v) >= 1
             text      == IF isPair THEN text_conf.v[1] ELSE PyStr(Str(text_conf))
             conf      == IF isPair /\ Len(text_conf.v) > 1 THEN Float(text_conf.v[2])
                          ELSE Ok(PyNum(0))
         IN  IF conf.exc # "none" THEN [exc |-> conf.exc, dets |-> <<>>]
             ELSE [exc |-> "none", dets |-> <<Parsed(bbox, text, conf.val)>>]
    ELSE [exc |-> "none", dets |-> <<>>]

\* The number of rounds of the loop at line 306 / 320
NumEntries(mode, per) == IF mode = "dict" THEN PyLen(per.d.rec_texts) ELSE Len(per.v)

EntryOutcome(mode, per, i) ==
    IF mode = "dict" THEN DictEntry(per, i) ELSE LegacyEntry(per.v[i])

\* lines 300-305 / 319: which loop runs, on what
Dispatch(res) ==
    LET per == PerImage(res)
    IN  IF per.exc # "none" THEN [exc |-> per.exc, mode |-> "none", per |-> PyNone]
        ELSE IF per.val.t = "dict"
        THEN [exc |-> DictKeys(per.val).exc, mode |-> "dict", per |-> DictKeys(per.val).val]
        ELSE IF per.val.t = "list"
        THEN [exc |-> "none", mode |-> "legacy", per |-> per.val]
        ELSE [exc |-> "none", mode |-> "none", per |-> PyNone]

RECURSIVE ParseFrom(_, _, _, _)
ParseFrom(mode, per, i, acc) ==
    IF i > NumEntries(mode, per) THEN [exc |-> "none", dets |-> acc]
    ELSE LET e == EntryOutcome(mode, per, i)
         IN  IF e.exc # "none" THEN [exc |-> e.exc, dets |-> <<>>]
             ELSE ParseFrom(mode, per, i + 1, acc \o e.dets)

\* _parse_ocr_results(results), lines 291-332
ParseOcrResults(res) ==
    LET d == Dispatch(res)
    IN  IF d.exc # "none" THEN [exc |-> d.exc, dets |-> <<>>]
        ELSE IF d.mode = "none" THEN [exc |-> "none", dets |-> <<>>]
        ELSE ParseFrom(d.mode, d.per, 1, <<>>)

-----------------------------------------------------------------------------
(* Bounds and input sets *)

MaxH     == 2     \* raster heights 1..MaxH
MaxW     == 12    \* the widest raster of the redactor's inputs
MaxDet   == 2     \* detections per list
MaxBoxes == 3     \* rectangles given to the box merger

\* Values are laid over a raster by repeating a palette
Tile(palette, n) == [i \in 1..n |-> palette[((i - 1) % Len(palette)) + 1]]

GrayRaster(h, w, dtype, palette) ==
    [shape |-> <<h, w>>, dtype |-> dtype, den |-> 1, px |-> Tile(palette, h * w)]

\* A 3-channel raster: the pixel of palette value v is <<v, v + 1, 255 - v>>
ColorRaster(h, w, palette) ==
    LET g == Tile(palette, h * w)
    IN  [shape |-> <<h, w, 3>>, dtype |-> "uint8", den |-> 1,
         px |-> [i \in 1..(h * w * 3) |->
                    LET v == g[((i - 1) \div 3) + 1]
                    IN  CASE (i - 1) % 3 = 0 -> v
                          [] (i - 1) % 3 = 1 -> v + 1
                          [] OTHER           -> 255 - v]]

RPalettes8  == {<<0, 10>>, <<30, 0, 21>>, <<7, 7, 90, 200>>}
RPalettesC  == {<<0, 10>>, <<7, 7, 90, 200>>}
RPalettes16 == {<<0, 20000, 65535, 300>>}
RWidths     == {3, MaxW}
RPaddings   == {0, 1, 5}

RRasters ==
    {GrayRaster(h, w, "uint8", p) : h \in 1..MaxH, w \in RWidths, p \in RPalettes8}
    \cup {GrayRaster(h, w, "uint16", p) : h \in 1..MaxH, w \in RWidths, p \in RPalettes16}
    \cup {ColorRaster(h, w, p) : h \in 1..MaxH, w \in RWidths, p \in RPalettesC}

\* The 4-corner polygon of the rectangle (x1, y1)-(x2, y2)
Poly(x1, y1, x2, y2) == <<<<x1, y1>>, <<x2, y1>>, <<x2, y2>>, <<x1, y2>>>>

Det(type, bbox, text) == [bboxType |-> type, bbox |-> bbox, text |-> text, conf |-> 90]

RDetections ==
    { Det("list", Poly(0, 0, 1, 1), <<"A">>),
      Det("list", Poly(MaxW - 2, 0, MaxW, 1), <<"C">>),
      Det("list", Poly(2, 1, 3, 2), <<"D">>),
      Det("list", <<<<0, 0>>, <<3, 0>>, <<2, 1>>, <<1, 2>>, <<0, 1>>>>, <<"E">>),
      Det("list", Poly(1, 0, 1, 1), <<"F">>),
      Det("list", <<<<0, 0>>, <<1, 0>>, <<1, 1>>>>, <<"G">>),
      Det("list", Poly(0, 0, 2, 1), <<" ">>),
      Det("None", <<>>, <<"H">>),
      Det("ndarray", Poly(1, 0, 3, 2), <<"N">>) }

\* A detector reports positions of its input raster
FitsIn(d, h, w) ==
    \A i \in DOMAIN d.bbox :
        /\ 0 <= d.bbox[i][1] /\ d.bbox[i][1] <= w
        /\ 0 <= d.bbox[i][2] /\ d.bbox[i][2] <= h

DetectionLists(S, h, w) == SeqsUpTo({d \in S : FitsIn(d, h, w)}, MaxDet)

\* ---- inputs of the pipeline ----
PWidths    == {2}
PPalettes8  == {<<100>>, <<100, 105>>, <<0, 100, 105, 255>>}
PPalettes16 == {<<300>>, <<0, 20000, 20500, 65535>>}
PPalettesC  == {<<0, 100>>}

\* <<WindowCenter, WindowWidth>>: absent, single-valued or multi-valued
PWindows ==
    { << <<>>, <<>> >>, << <<40000>>, <<10000>> >>, << <<100, 0>>, <<50, 1>> >>,
      << <<128>>, <<0>> >>, << <<200>>, <<>> >>, << <<200>>, <<100>> >> }
PWindowsC == { << <<>>, <<>> >>, << <<100, 0>>, <<50, 1>> >> }

Reverse(q) == [i \in DOMAIN q |-> q[Len(q) + 1 - i]]

\* A raster of c channels: channel j of the pixel of palette value v is
\* (v + 40 * (j - 1)) % 256
ChannelRaster(h, w, c, palette) ==
    LET g == Tile(palette, h * w)
    IN  [shape |-> <<h, w, c>>, dtype |-> "uint8", den |-> 1,
         px |-> [i \in 1..(h * w * c) |->
                    (g[((i - 1) \div c) + 1] + 40 * ((i - 1) % c)) % 256]]

Dataset(mode, spp, multi, f, g, bits, photo, win) ==
    [transform_mode |-> mode, SamplesPerPixel |-> spp, multiframe |-> multi,
     frames |-> IF multi THEN <<f, g>> ELSE <<f>>,
     BitsStored |-> bits, PhotometricInterpretation |-> photo,
     WindowCenter |-> win[1], WindowWidth |-> win[2]]

\* <<dtype, BitsStored>>
GrayKinds == { <<"uint8", 8>>, <<"uint16", 16>>, <<"uint16", 8>> }

GrayDatasets ==
    {Dataset(mode, 1, multi, GrayRaster(h, w, kind[1], p),
             GrayRaster(h, w, kind[1], Reverse(p)), kind[2], photo, win) :
        mode \in {"clahe", "standard"}, multi \in BOOLEAN,
        h \in 1..MaxH, w \in PWidths,
        kind \in GrayKinds, p \in PPalettes8 \cup PPalettes16,
        photo \in {"MONOCHROME1", "MONOCHROME2"}, win \in PWindows}

ColorDatasets ==
    {Dataset(mode, c, multi, ChannelRaster(h, w, c, p),
             ChannelRaster(h, w, c, Reverse(p)), 8, "RGB", win) :
        mode \in {"clahe", "standard"}, multi \in BOOLEAN,
        h \in 1..MaxH, w \in PWidths, c \in {2, 3, 4}, p \in PPalettesC,
        win \in PWindowsC}

\* The samples of a dataset lie in [0, 2^BitsStored - 1]
ValidDataset(d) ==
    \A i \in DOMAIN d.frames[1].px : d.frames[1].px[i] < 2 ^ d.BitsStored

PDetections ==
    { Det("list", Poly(0, 0, 1, 1), <<"A">>),
      Det("list", Poly(0, 0, 2, 1), <<" ">>),
      Det("None", <<>>, <<"H", "I">>) }

MRects == { <<0, 0, 10, 10>>, <<8, 8, 10, 10>>, <<100, 100, 5, 5>>,
            <<0, 0, 2, 30>>, <<20, 0, 3, 3>>, <<8, 40, 1, 1>>, <<8, 8, 1, 1>> }
MMargins == {0, DefaultMargin}

\* paddle.device.cuda.device_count()
GpuCounts == {0, 1}

\* ---- raw detector results given to _parse_ocr_results ----
PyPoint(pt)  == PyList(<<PyNum(pt[1]), PyNum(pt[2])>>)
PyPoints(bb) == [i \in DOMAIN bb |-> PyPoint(bb[i])]

\* Entries of a legacy result: (polygon, (text, confidence)) and what a
\* detector may put in its place
LEntries ==
    { PyList(<<PyList(PyPoints(Poly(0, 0, 1, 1))),
               PyList(<<PyStr(<<"A">>), PyNum(90)>>)>>),
      PyList(<<PyList(PyPoints(Poly(2, 1, 3, 2))), PyList(<<PyStr(<<"B">>)>>)>>),
      PyList(<<PyList(PyPoints(Poly(0, 0, 2, 1)))>>),
      PyList(<<PyList(PyPoints(Poly(0, 0, 1, 1))),
               PyList(<<PyStr(<<"C">>), PyStr(<<"h", "i">>)>>)>>),
      PyList(<<PyList(PyPoints(Poly(0, 0, 1, 1))),
               PyList(<<PyStr(<<"D">>), PyNone>>)>>),
      PyList(<<PyList(PyPoints(Poly(0, 0, 1, 1))), PyStr(<<"E">>)>>),
      PyStr(<<"x">>) }

LegacyResults == {PyList(<<PyList(es)>>) : es \in SeqsUpTo(LEntries, MaxDet)}

\* Rows of a structured result: the text, the score, the polygon and the box
\* of one detection
SRows ==
    { [text  |-> PyStr(<<"A">>), score |-> PyNum(90),
       poly  |-> PyArray(PyPoints(Poly(0, 0, 1, 1))),
       box   |-> PyArray(<<PyNum(0), PyNum(0), PyNum(1), PyNum(1)>>)],
      [text  |-> PyStr(<<"B">>), score |-> PyStr(<<"h", "i">>),
       poly  |-> PyArray(PyPoints(Poly(2, 1, 3, 2))),
       box   |-> PyArray(<<PyNum(2), PyNum(1), PyNum(3), PyNum(2)>>)],
      [text  |-> PyStr(<<"C">>), score |-> PyStr(<<"7">>),
       poly  |-> PyList(PyPoints(Poly(0, 0, 2, 1))),
       box   |-> PyArray(<<PyNum(0), PyNum(0), PyNum(2)>>)] }

Column(rows, key) == [i \in DOMAIN rows |-> rows[i][key]]

StructuredOf(rows, withScores, withPolys, withBoxes) ==
    PyDict(PyList(Column(rows, "text")),
           IF withScores THEN PyList(Column(rows, "score")) ELSE PyNone,
           IF withPolys THEN PyList(Column(rows, "poly")) ELSE PyNone,
           IF withBoxes THEN PyArray(Column(rows, "box")) ELSE PyNone)

StructuredResults ==
    { PyList(<<StructuredOf(rows, ws, wp, wb)>>) :
        rows \in SeqsUpTo(SRows, MaxDet), ws \in BOOLEAN, wp \in BOOLEAN,
        wb \in BOOLEAN }

\* Neither form: nothing, an empty list, a string, a number, a dict that is
\* not in a list, and polygons given as one array
OtherResults ==
    { PyNone, PyList(<<>>), PyStr(<<"x">>), PyNum(1),
      StructuredOf(<<>>, TRUE, TRUE, TRUE),
      PyList(<<PyDict(PyList(<<PyStr(<<"A">>), PyStr(<<"B">>)>>),
                      PyList(<<PyNum(90), PyNum(80)>>),
                      PyArray(<<PyArray(PyPoints(Poly(0, 0, 1, 1))),
                                PyArray(PyPoints(Poly(2, 1, 3, 2)))>>),
                      PyNone)>>) }

RawResults == LegacyResults \cup StructuredResults \cup OtherResults

\* ---- what ocr.predict returns in the pipeline ----
\* A detection as the detector reports it, in the legacy form
RawOf(d) ==
    PyList(<< CASE d.bboxType = "None" -> PyNone
                [] d.bboxType = "list" -> PyList(PyPoints(d.bbox))
                [] OTHER               -> PyArray(PyPoints(d.bbox)),
              PyList(<<PyStr(d.text), PyNum(d.conf)>>) >>)

RawResultOf(dets) == PyList(<< PyList([i \in DOMAIN dets |-> RawOf(dets[i])]) >>)

\* A result whose one entry has a confidence that is not a number
PMalformed ==
    PyList(<< PyList(<< PyList(<< PyList(PyPoints(Poly(0, 0, 1, 1))),
                                  PyList(<<PyStr(<<"A">>), PyStr(<<"h", "i">>)>>)
                               >>) >>) >>)

PRawResults(h, w) ==
    {RawResultOf(dets) : dets \in DetectionLists(PDetections, h, w)} \cup {PMalformed}

\* A parsed detection (bbox, text, conf) as the record the redactor model reads
DetectionOf(p) ==
    [bboxType |-> p.bbox.t,
     bbox     |-> IF p.bbox.t = "None" THEN <<>>
                  ELSE [i \in DOMAIN p.bbox.v |->
                           <<p.bbox.v[i].v[1].n, p.bbox.v[i].v[2].n>>],
     text     |-> p.text.s,
     conf     |-> p.conf]

DetectionsOf(ps) == [i \in DOMAIN ps |-> DetectionOf(ps[i])]

-----------------------------------------------------------------------------
(* Initial states *)

\* lines 226-228: the locals of the device selection, and paddle before any
\* set_device
DeviceIdle ==
    /\ compiled_with_cuda = FALSE
    /\ gpu_count = 0
    /\ use_gpu = FALSE
    /\ set_calls = <<>>
    /\ paddle_device = "default"

PipeIdle ==
    /\ pc = "off"
    /\ ds = None
    /\ pixel_array = None
    /\ image_for_output = None
    /\ clahe_applied = None
    /\ wl = None
    /\ normalized = None
    /\ enhanced_stretched = None
    /\ divZero = FALSE
    /\ error = "none"
    /\ extracted_text = <<>>
    /\ DeviceIdle

RedactIdle ==
    /\ rpc = "off"
    /\ image = None
    /\ detections = <<>>
    /\ padding = 0
    /\ redacted = None
    /\ redacted2 = None

MergeIdle ==
    /\ mpc = "off"
    /\ boxes = <<>>
    /\ margin = DefaultMargin
    /\ sorted_boxes = <<>>
    /\ merged = <<>>
    /\ k = 0

ParseIdle ==
    /\ ppc = "off"
    /\ results = PyNone
    /\ per_image = PyNone
    /\ idx = 0
    /\ parsed = <<>>
    /\ raised = "none"

\* _parse_ocr_results(results) is about to be called
InitParse ==
    /\ PipeIdle /\ RedactIdle /\ MergeIdle
    /\ ppc = "idle"
    /\ results \in RawResults
    /\ per_image = PyNone
    /\ idx = 0
    /\ parsed = <<>>
    /\ raised = "none"

\* redact_text_regions(image, detections, padding) is about to be called
InitRedact ==
    /\ PipeIdle /\ MergeIdle /\ ParseIdle
    /\ rpc = "idle"
    /\ image \in RRasters
    /\ detections \in DetectionLists(RDetections, Height(image), Width(image))
    /\ padding \in RPaddings
    /\ redacted = None
    /\ redacted2 = None

\* _merge_overlapping_boxes(boxes, margin) is about to be called
InitMerge ==
    /\ PipeIdle /\ RedactIdle /\ ParseIdle
    /\ mpc = "idle"
    /\ boxes \in SeqsUpTo(MRects, MaxBoxes)
    /\ margin \in MMargins
    /\ sorted_boxes = <<>>
    /\ merged = <<>>
    /\ k = 0

\* extract_text_from_dicom(dicom_path, transform_mode): the dataset is read
Init ==
    /\ RedactIdle /\ MergeIdle /\ ParseIdle
    /\ pc = "read"
    /\ ds \in {d \in GrayDatasets \cup ColorDatasets : ValidDataset(d)}
    /\ pixel_array = None
    /\ image_for_output = None
    /\ clahe_applied = None
    /\ wl = None
    /\ normalized = None
    /\ enhanced_stretched = None
    /\ divZero = FALSE
    /\ error = "none"
    /\ extracted_text = <<>>
    /\ DeviceIdle

-----------------------------------------------------------------------------
(* Actions of the redactor and of the box merger *)

\* redact_text_regions(image, detections, padding), lines 335-378
RedactOnce ==
    /\ rpc = "idle"
    /\ redacted' = RedactTextRegions(image, detections, padding)
    /\ rpc' = "once"
    /\ UNCHANGED <<image, detections, padding, redacted2, pipeVars, mergeVars, parseVars>>

\* the same call on the raster just returned
RedactAgain ==
    /\ rpc = "once"
    /\ redacted2' = RedactTextRegions(redacted, detections, padding)
    /\ rpc' = "twice"
    /\ UNCHANGED <<image, detections, padding, redacted, pipeVars, mergeVars, parseVars>>

\* lines 393-398
MergeStart ==
    /\ mpc = "idle"
    /\ IF boxes = <<>>
       THEN mpc' = "done" /\ UNCHANGED <<sorted_boxes, k>>
       ELSE mpc' = "loop" /\ sorted_boxes' = SortBoxes(boxes) /\ k' = 1
    /\ merged' = <<>>
    /\ UNCHANGED <<boxes, margin, pipeVars, parseVars, redactVars>>

\* lines 400-423, one rectangle
MergeIter ==
    /\ mpc = "loop"
    /\ k <= Len(sorted_boxes)
    /\ merged' = MergeOne(merged, sorted_boxes[k], margin)
    /\ k' = k + 1
    /\ UNCHANGED <<mpc, boxes, margin, sorted_boxes, pipeVars, parseVars, redactVars>>

\* line 425
MergeReturn ==
    /\ mpc = "loop"
    /\ k > Len(sorted_boxes)
    /\ mpc' = "done"
    /\ UNCHANGED <<boxes, margin, sorted_boxes, merged, k, pipeVars, parseVars, redactVars>>

-----------------------------------------------------------------------------
(* Actions of _parse_ocr_results *)

\* lines 292-305 and 319: the empty test, per_image and the choice of the loop
ParseStart ==
    /\ ppc = "idle"
    /\ LET d == Dispatch(results)
       IN  IF d.exc # "none"
           THEN /\ ppc' = "raised"
                /\ raised' = d.exc
                /\ UNCHANGED <<per_image, idx>>
           ELSE /\ ppc' = IF d.mode = "none" THEN "done" ELSE d.mode
                /\ per_image' = d.per
                /\ idx' = 1
                /\ UNCHANGED raised
    /\ UNCHANGED <<results, parsed, pipeVars, redactVars, mergeVars>>

\* one round of the loop at line 306 or of the loop at line 320
ParseEntry ==
    /\ ppc \in {"dict", "legacy"}
    /\ idx <= NumEntries(ppc, per_image)
    /\ LET e == EntryOutcome(ppc, per_image, idx)
       IN  IF e.exc # "none"
           THEN /\ ppc' = "raised"
                /\ raised' = e.exc
                /\ UNCHANGED <<parsed, idx>>
           ELSE /\ parsed' = parsed \o e.dets
                /\ idx' = idx + 1
                /\ UNCHANGED <<ppc, raised>>
    /\ UNCHANGED <<results, per_image, pipeVars, redactVars, mergeVars>>

\* line 317 / 332
ParseReturn ==
    /\ ppc \in {"dict", "legacy"}
    /\ idx > NumEntries(ppc, per_image)
    /\ ppc' = "done"
    /\ UNCHANGED <<results, per_image, idx, parsed, raised, pipeVars, redactVars,
                   mergeVars>>

-----------------------------------------------------------------------------
(* Actions of extract_text_from_dicom and main *)

\* lines 31-62: frame selection
FrameSelect ==
    /\ pc = "read"
    /\ LET f == SelectedFrame(ds)
       IN  IF ds.SamplesPerPixel > 1
           THEN /\ image_for_output' = OutputOfFrame(f)
                /\ pixel_array' = GrayOfFrame(f)
           ELSE /\ image_for_output' = None
                /\ pixel_array' = f
    /\ pc' = "selected"
    /\ UNCHANGED <<ds, clahe_applied, wl, normalized, enhanced_stretched, divZero,
                   error, extracted_text, redactVars, mergeVars, parseVars, deviceVars>>

\* lines 70-80: Strategy A, the VOI LUT; apply_voi_lut may raise
PrepareStandard ==
    /\ pc = "selected"
    /\ ds.transform_mode = "standard"
    /\ IF ds.SamplesPerPixel = 1
       THEN \E raises \in BOOLEAN :
               pixel_array' = IF raises \/ VoiRaises(ds) THEN pixel_array
                              ELSE VoiLut(pixel_array, ds)
       ELSE pixel_array' = pixel_array
    /\ pc' = "prepared"
    /\ UNCHANGED <<ds, image_for_output, clahe_applied, wl, normalized,
                   enhanced_stretched, divZero, error, extracted_text,
                   redactVars, mergeVars, parseVars, deviceVars>>

\* lines 118-138: Strategy B, full-range rescale and the first CLAHE;
\* cv2's CLAHE raises on an array that is not single-channel
PrepareClahe ==
    /\ pc = "selected"
    /\ ds.transform_mode = "clahe"
    /\ pixel_array' = FullRangeRescale(pixel_array)
    /\ IF Len(pixel_array.shape) = 3
       THEN /\ pc' = "failed"
            /\ error' = "cv2.error"
            /\ UNCHANGED clahe_applied
       ELSE /\ pc' = "prepared"
            /\ clahe_applied' \in ClaheOutcomes(pixel_array')
            /\ UNCHANGED error
    /\ UNCHANGED <<ds, image_for_output, wl, normalized, enhanced_stretched, divZero,
                   extracted_text, redactVars, mergeVars, parseVars, deviceVars>>

\* The array the window is applied to (lines 103, 192)
WindowSource == IF ds.transform_mode = "standard" THEN pixel_array ELSE clahe_applied

\* lines 83-106 and 146-193: window/level and the rescale to 8 bits
WindowStep ==
    /\ pc = "prepared"
    /\ wl' = IF ds.transform_mode = "standard"
             THEN ResolveWindowStandard(WindowSource, ds)
             ELSE ResolveWindowClahe(WindowSource, ds)
    /\ normalized' \in WindowedImages(WindowSource, wl')
    /\ divZero' = (divZero \/ wl'.upper = wl'.lower)
    /\ pc' = "windowed"
    /\ UNCHANGED <<ds, pixel_array, image_for_output, clahe_applied,
                   enhanced_stretched, error, extracted_text, redactVars, mergeVars, parseVars, deviceVars>>

\* lines 108-116 and 195-219: MONOCHROME1 inversion, the output raster and
\* the detection raster
InvertStep ==
    /\ pc = "windowed"
    /\ normalized' = Invert(normalized, ds)
    /\ image_for_output' = IF image_for_output = None THEN normalized'
                           ELSE image_for_output
    /\ IF ds.transform_mode = "standard"
       THEN enhanced_stretched' = normalized'
       ELSE \E e \in ClaheOutcomes(normalized') : enhanced_stretched' = Stretch(e)
    /\ pc' = "normalized"
    /\ UNCHANGED <<ds, pixel_array, clahe_applied, wl, divZero, error,
                   extracted_text, redactVars, mergeVars, parseVars, deviceVars>>

\* lines 229-239: the CUDA capability check and the GPU count; an exception of
\* is_compiled_with_cuda is caught at line 238, one of device_count at line 235
CapabilityOutcome(capRaises, compiled, cntRaises, cnt) ==
    IF capRaises
    THEN [compiled_with_cuda |-> FALSE, gpu_count |-> 0, use_gpu |-> FALSE]
    ELSE LET n == IF compiled /\ ~cntRaises THEN cnt ELSE 0
         IN  [compiled_with_cuda |-> compiled, gpu_count |-> n,
              use_gpu |-> compiled /\ n > 0]

CapabilityCheck ==
    /\ pc = "normalized"
    /\ \E capRaises \in BOOLEAN, compiled \in BOOLEAN, cntRaises \in BOOLEAN,
          cnt \in GpuCounts :
          LET out == CapabilityOutcome(capRaises, compiled, cntRaises, cnt)
          IN  /\ compiled_with_cuda' = out.compiled_with_cuda
              /\ gpu_count' = out.gpu_count
              /\ use_gpu' = out.use_gpu
    /\ pc' = "capability"
    /\ UNCHANGED <<ds, pixel_array, image_for_output, clahe_applied, wl, normalized,
                   enhanced_stretched, divZero, error, extracted_text, set_calls,
                   paddle_device, redactVars, mergeVars, parseVars>>

\* A set_device that stops at the first failure, with no CPU fallback
SetDeviceNoFallback(useGpu, firstFails, cpuFails) ==
    LET first == IF useGpu THEN "gpu" ELSE "cpu"
    IN  [set_calls     |-> << [device |-> first, ok |-> ~firstFails] >>,
         paddle_device |-> IF firstFails THEN "default" ELSE first,
         use_gpu       |-> useGpu,
         raised        |-> firstFails]

\* lines 242-250: paddle.set_device on the chosen device; when it raises,
\* set_device('cpu') is called, and when that raises too the exception is
\* printed and the function goes on
SetDeviceOutcome(useGpu, firstFails, cpuFails) ==
    LET first == IF useGpu THEN "gpu" ELSE "cpu"
    IN  IF ~firstFails
        THEN [set_calls     |-> << [device |-> first, ok |-> TRUE] >>,
              paddle_device |-> first,
              use_gpu       |-> useGpu,
              raised        |-> FALSE]
        ELSE [set_calls     |-> << [device |-> first, ok |-> FALSE],
                                   [device |-> "cpu", ok |-> ~cpuFails] >>,
              paddle_device |-> IF cpuFails THEN "default" ELSE "cpu",
              use_gpu       |-> IF cpuFails THEN useGpu ELSE FALSE,
              raised        |-> FALSE]

SetDevice ==
    /\ pc = "capability"
    /\ \E firstFails \in BOOLEAN, cpuFails \in BOOLEAN :
          LET out == SetDeviceOutcome(use_gpu, firstFails, cpuFails)
          IN  /\ set_calls' = out.set_calls
              /\ paddle_device' = out.paddle_device
              /\ use_gpu' = out.use_gpu
              /\ pc' = IF out.raised THEN "failed" ELSE "device_set"
              /\ error' = IF out.raised THEN "set_device" ELSE error
    /\ UNCHANGED <<ds, pixel_array, image_for_output, clahe_applied, wl, normalized,
                   enhanced_stretched, divZero, extracted_text, compiled_with_cuda,
                   gpu_count, redactVars, mergeVars, parseVars>>

\* The function is left, by a return or by an exception: its locals are gone,
\* and nothing reads the device paddle was set to once the detector has run
DeviceForgotten ==
    /\ compiled_with_cuda' = FALSE
    /\ gpu_count' = 0
    /\ use_gpu' = FALSE
    /\ set_calls' = <<>>
    /\ paddle_device' = "default"

\* lines 252-288: the detector is built and runs once on the detection raster,
\* its result is parsed and the function returns (extracted_text,
\* image_for_output, primary_detections); cv2.cvtColor raises on a detection
\* raster that is not single-channel, and an exception of _parse_ocr_results
\* leaves the function.
Detect ==
    /\ pc = "device_set"
    /\ IF Len(enhanced_stretched.shape) = 3
       THEN /\ pc' = "failed"
            /\ error' = "cv2.error"
            /\ DeviceForgotten
            /\ UNCHANGED <<detections, extracted_text, pixel_array, clahe_applied,
                           wl, normalized, enhanced_stretched>>
       ELSE \E raw \in PRawResults(Height(enhanced_stretched),
                                    Width(enhanced_stretched)) :
              LET primary == ParseOcrResults(raw)
              IN  IF primary.exc # "none"
                  THEN /\ pc' = "failed"
                       /\ error' = primary.exc
                       /\ DeviceForgotten
                       /\ UNCHANGED <<detections, extracted_text, pixel_array,
                                      clahe_applied, wl, normalized,
                                      enhanced_stretched>>
                  ELSE /\ pc' = "returned"
                       /\ detections' = DetectionsOf(primary.dets)
                       /\ extracted_text' = ExtractedText(detections')
                       /\ pixel_array' = None
                       /\ clahe_applied' = None
                       /\ wl' = None
                       /\ normalized' = None
                       /\ enhanced_stretched' = None
                       /\ DeviceForgotten
                       /\ UNCHANGED error
    /\ UNCHANGED <<ds, image_for_output, divZero, rpc, image, padding, redacted,
                   redacted2, mergeVars, parseVars>>

\* lines 438-459: main redacts the returned raster with padding 10
Main ==
    /\ pc = "returned"
    /\ image' = image_for_output
    /\ padding' = MainPadding
    /\ redacted' = RedactTextRegions(image_for_output, detections, MainPadding)
    /\ rpc' = "once"
    /\ pc' = "done"
    /\ UNCHANGED <<ds, pixel_array, image_for_output, clahe_applied, wl, normalized,
                   enhanced_stretched, divZero, error, extracted_text, detections,
                   redacted2, mergeVars, parseVars, deviceVars>>

Next == FrameSelect \/ PrepareStandard \/ PrepareClahe \/ WindowStep \/ InvertStep
        \/ CapabilityCheck \/ SetDevice \/ Detect \/ Main

Spec == Init /\ [][Next]_vars

\* extract_text_from_dicom is sequential code: once the normalization is done
\* the statements of the device selection run, one after the other
FairSpec == Spec /\ WF_vars(CapabilityCheck) /\ WF_vars(SetDevice)

NextRedact == RedactOnce \/ RedactAgain
NextMerge  == MergeStart \/ MergeIter \/ MergeReturn
NextParse  == ParseStart \/ ParseEntry \/ ParseReturn

SpecRedact == InitRedact /\ [][NextRedact]_vars
SpecMerge  == InitMerge /\ [][NextMerge]_vars
SpecParse  == InitParse /\ [][NextParse]_vars

-----------------------------------------------------------------------------
(* Claims about the redactor and the box merger *)

\* C1 (as claimed): redacting the redacted raster again with the same
\* detections and padding returns a bit-identical raster.
C1_IdempotentRedaction == rpc = "twice" => redacted2 = redacted

\* The rectangle r = <<x, y, w, h>> expanded by pad and clamped to the raster
\* holds pixel (row, col)
InPadded(img, r, pad, row, col) ==
    /\ Max2(0, r[1] - pad) <= col /\ col < Min2(Width(img), r[1] + r[3] + pad)
    /\ Max2(0, r[2] - pad) <= row /\ row < Min2(Height(img), r[2] + r[4] + pad)

RedactedRects == MergeOverlappingBoxes(BoxesOf(detections), DefaultMargin)

OutsideAll(img, rects, row, col) ==
    \A j \in DOMAIN rects : ~InPadded(img, rects[j], padding, row, col)

RefBoxes  == << <<0, 0, 10, 10>>, <<8, 8, 10, 10>>, <<100, 100, 5, 5>> >>
RefMerged == << <<0, 0, 18, 18>>, <<100, 100, 5, 5>> >>

\* The distance between the intervals [a1, a2] and [b1, b2] is at most mg
WithinOnAxis(a1, a2, b1, b2, mg) == Max2(b1 - a2, a1 - b2) <= mg

WithinMargin(b, m, mg) ==
    /\ WithinOnAxis(b[1], b[1] + b[3], m[1], m[1] + m[3], mg)
    /\ WithinOnAxis(b[2], b[2] + b[4], m[2], m[2] + m[4], mg)

\* The smallest rectangle holding both a and b
Hull(a, b) ==
    <<Min2(a[1], b[1]), Min2(a[2], b[2]),
      Max2(a[1] + a[3], b[1] + b[3]) - Min2(a[1], b[1]),
      Max2(a[2] + a[4], b[2] + b[4]) - Min2(a[2], b[2])>>

\* C3: each rectangle of the loop either replaces the first merged rectangle
\* it is within the margin of (on both axes) by the union bounding box of the
\* two, or, being within the margin of none, is appended unchanged; and the
\* reference input with margin 5 returns exactly (0,0,18,18), (100,100,5,5).
C3_BoxMerge ==
    [][/\ (mpc = "loop" /\ k <= Len(sorted_boxes)) =>
            LET b    == sorted_boxes[k]
                hits == {i \in DOMAIN merged : WithinMargin(b, merged[i], margin)}
            IN  IF hits = {}
                THEN merged' = Append(merged, b)
                ELSE \E i \in hits :
                        /\ \A j \in hits : i <= j
                        /\ merged' = [merged EXCEPT ![i] = Hull(b, merged[i])]
       /\ (boxes = RefBoxes /\ margin = 5 /\ mpc' = "done") => merged' = RefMerged
      ]_vars

\* C3 witness: the reference input has been merged
C3_Witness ==
    /\ mpc = "done"
    /\ boxes = RefBoxes
    /\ margin = 5
    /\ merged = RefMerged

-----------------------------------------------------------------------------
(* Claims about the normalization pipeline *)

Raw == ds.frames[1].px

\* The 16-bit reference image of gen_test_dicoms.py: values spanning
\* 0..65535, metadata window center 40000, width 10000
RangeSafetyInput ==
    /\ ds.SamplesPerPixel = 1
    /\ ds.frames[1].dtype = "uint16"
    /\ ds.BitsStored = 16
    /\ SeqMin(Raw) = 0 /\ SeqMax(Raw) = 65535
    /\ Present(ds.WindowCenter) /\ Present(ds.WindowWidth)
    /\ First(ds.WindowCenter) = 40000 /\ First(ds.WindowWidth) = 10000

\* C2: on the reference image Strategy A gives the raw values 20000 and 20500
\* the same 8-bit value, and Strategy B, its CLAHE step being the identity,
\* gives them two different 8-bit values.
C2_RangeSafety ==
    (pc \in {"windowed", "normalized"} /\ RangeSafetyInput) =>
        \A i, j \in DOMAIN Raw :
            (Raw[i] = 20000 /\ Raw[j] = 20500) =>
                /\ ds.transform_mode = "standard" => normalized.px[i] = normalized.px[j]
                /\ (ds.transform_mode = "clahe" /\ clahe_applied = pixel_array) =>
                        normalized.px[i] # normalized.px[j]
                /\ pc = "normalized" => image_for_output = normalized

\* C2 witness: Strategy B has separated the two values of the reference image
C2_Witness ==
    /\ pc = "normalized"
    /\ RangeSafetyInput
    /\ ds.transform_mode = "clahe"
    /\ clahe_applied = pixel_array
    /\ \E i, j \in DOMAIN Raw :
          Raw[i] = 20000 /\ Raw[j] = 20500 /\ image_for_output.px[i] # image_for_output.px[j]

PlaceholderString ==
    <<"(", "N", "o", " ", "t", "e", "x", "t", " ",
      "d", "e", "t", "e", "c", "t", "e", "d", ")">>

\* C4: with an empty detection list the raster returned by
\* redact_text_regions is the raster it was given, which is the output raster
\* of the pipeline, and the extracted text is the placeholder.
C4_NoDetectionPassThrough ==
    (pc = "done" /\ detections = <<>>) =>
        /\ image = image_for_output
        /\ redacted = image
        /\ extracted_text = PlaceholderString

\* C4 witness: main has redacted with no detection
C4_Witness ==
    /\ pc = "done"
    /\ rpc = "once"
    /\ detections = <<>>
    /\ redacted = image_for_output

UnsupportedChannels ==
    /\ ds.SamplesPerPixel > 1
    /\ Channels(ds.frames[1]) \notin {3, 4}

\* C6 (as claimed): with an unsupported channel count the pipeline has failed
\* with UnsupportedImageFormat once frame selection is over, before any
\* normalization and without an output raster.
C6_UnsupportedChannelsFatal ==
    (UnsupportedChannels /\ pc # "read") =>
        /\ pc = "failed"
        /\ error = "UnsupportedImageFormat"
        /\ wl = None /\ normalized = None
        /\ image_for_output = None

\* C7 (as claimed): no rescale step divides by a zero denominator.
C7_DivisionsGuarded == divZero = FALSE

\* The window step has rescaled with a non-zero denominator
Rescaled == pc = "windowed" /\ wl.upper > wl.lower

\* The sample i of the window's source, clipped, in window units
Clipped(i) ==
    Clip((wl.scale \div WindowSource.den) * WindowSource.px[i], wl.lower, wl.upper)

\* C8 (as claimed): the 8-bit value is the quotient rounded to the nearest
\* integer: u <= q + 1/2 < u + 1 for q = (v - lower) / (upper - lower) * 255.
C8_RoundsToNearest ==
    Rescaled =>
        \A i \in DOMAIN normalized.px :
            LET n == (Clipped(i) - wl.lower) * 255
                d == wl.upper - wl.lower
                u == normalized.px[i]
            IN  2 * u * d <= 2 * n + d /\ 2 * n + d < 2 * (u + 1) * d

\* C8 (amended): the 8-bit value is the quotient with its fraction dropped:
\* u <= q < u + 1; a sample equal to upper maps to 255.
C8_Truncates ==
    Rescaled =>
        \A i \in DOMAIN normalized.px :
            LET n == (Clipped(i) - wl.lower) * 255
                d == wl.upper - wl.lower
                u == normalized.px[i]
            IN  /\ u * d <= n /\ n < (u + 1) * d
                /\ Clipped(i) = wl.upper => u = 255

\* C8 witness: a quotient of k + 1/2 or more was mapped to k
C8_Witness ==
    /\ Rescaled
    /\ \E i \in DOMAIN normalized.px :
          LET n == (Clipped(i) - wl.lower) * 255
              d == wl.upper - wl.lower
          IN  2 * n >= (2 * normalized.px[i] + 1) * d

WindowMissing == ~Present(ds.WindowCenter) \/ ~Present(ds.WindowWidth)

\* center = (min + max) / 2, width = max(max - min, 1) of the window's source
IsDataDerived(w) ==
    LET mn == SeqMin(WindowSource.px)
        mx == SeqMax(WindowSource.px)
        dn == WindowSource.den
    IN  /\ w.scale = 2 * dn
        /\ w.center = mn + mx
        /\ w.half = Max2(mx - mn, dn)
        /\ w.lower = w.center - w.half
        /\ w.upper = w.center + w.half

\* center = 128, width = 256
IsFullRange(w) ==
    /\ w.center = 128 * w.scale /\ w.half = 128 * w.scale
    /\ w.lower = 0 /\ w.upper = 256 * w.scale

C10_MonochromeInversion ==
    [][(pc = "windowed" /\ pc' = "normalized") =>
        /\ DOMAIN normalized'.px = DOMAIN normalized.px
        /\ \A i \in DOMAIN normalized.px :
              normalized'.px[i] = IF ds.PhotometricInterpretation = "MONOCHROME1"
                                  THEN 255 - normalized.px[i]
                                  ELSE normalized.px[i]
        /\ image_for_output = None => image_for_output' = normalized']_vars

\* C10 witness: a MONOCHROME1 input has been inverted
C10_Witness ==
    /\ pc = "normalized"
    /\ ds.PhotometricInterpretation = "MONOCHROME1"
    /\ image_for_output = normalized
    /\ \E i, j \in DOMAIN normalized.px : normalized.px[i] < normalized.px[j]

-----------------------------------------------------------------------------
(* Claims about the device selection *)

\* Every failed set_device('gpu') is followed by a set_device('cpu')
CpuTriedAfterGpuFailure ==
    \A i \in DOMAIN set_calls :
        (set_calls[i].device = "gpu" /\ ~set_calls[i].ok) =>
            (i < Len(set_calls) /\ set_calls[i + 1].device = "cpu")

\* A step of the device selection raises nothing and goes on to the next step
DeviceStepGoesOn ==
    pc \in {"normalized", "capability"} =>
        (pc' \in {"capability", "device_set"} /\ error' = error)

\* From the detector step the pipeline returns or fails: the step never repeats
DetectorStepOnce ==
    pc = "device_set" => pc' \in {"returned", "failed"}

\* C11: the device selection never aborts the pipeline.  Whatever fails among
\* the CUDA capability check, the GPU count, set_device('gpu') and
\* set_device('cpu'), no step of the device selection ends the pipeline, the
\* pipeline goes from the end of the normalization to the detector step, the
\* detector step is taken once from there, and a failed set_device('gpu') is
\* always followed by a set_device('cpu').
C11_DeviceSelectionNeverAborts ==
    /\ [][DeviceStepGoesOn]_vars
    /\ [][DetectorStepOnce]_vars
    /\ [](pc = "device_set" => (set_calls # <<>> /\ CpuTriedAfterGpuFailure))
    /\ (pc = "normalized") ~> (pc = "device_set")

\* The detector step is reached although both set_device('gpu') and the
\* set_device('cpu') that followed it failed
C11_Witness ==
    /\ pc = "device_set"
    /\ set_calls = << [device |-> "gpu", ok |-> FALSE],
                      [device |-> "cpu", ok |-> FALSE] >>
    /\ paddle_device = "default"

-----------------------------------------------------------------------------
(* Claims about _parse_ocr_results *)

\* An entry of the legacy form: (polygon, (text,)) or (polygon, (text,
\* confidence)) with a numeric confidence
WellFormedLegacy(e) ==
    /\ e.t = "list" /\ Len(e.v) = 2
    /\ e.v[2].t = "list" /\ Len(e.v[2].v) \in {1, 2}
    /\ e.v[2].v[1].t = "str"
    /\ Len(e.v[2].v) = 2 => e.v[2].v[2].t = "num"

\* The result is a list of one list of entries
LegacyShaped(res) ==
    res.t = "list" /\ Len(res.v) = 1 /\ res.v[1].t = "list"

\* The number of well-formed entries of a legacy-shaped result
WellFormedCount(res) ==
    Cardinality({i \in DOMAIN res.v[1].v : WellFormedLegacy(res.v[1].v[i])})

\* C12 (as claimed): _parse_ocr_results never raises, whatever the shape of
\* the raw result; an empty or absent result gives the empty list, and a
\* result made of entries returns no more detections than it has
\* well-formed entries (a malformed entry contributes none).
C12_MalformedIsZeroDetections ==
    /\ ppc # "raised"
    /\ ppc = "done" =>
          /\ Truth(results) = "false" => parsed = <<>>
          /\ LegacyShaped(results) => Len(parsed) <= WellFormedCount(results)

-----------------------------------------------------------------------------
(* Claims about the order of the rectangles given to the box merger *)

\* The lists that hold the rectangles of s in some order
PermutationsOf(s) ==
    { [i \in DOMAIN s |-> s[f[i]]] :
        f \in {g \in [DOMAIN s -> DOMAIN s] : \A i, j \in DOMAIN s : g[i] = g[j] => i = j} }

\* C13 (as claimed): the merge does not depend on the order of its argument.
\* When _merge_overlapping_boxes has returned, every permutation of the list
\* it was given merges to the same rectangles, also when several rectangles
\* share their top-left corner.
C13_MergeIgnoresInputOrder ==
    mpc = "done" =>
        \A p \in PermutationsOf(boxes) :
            Range(MergeOverlappingBoxes(p, margin)) = Range(merged)

-----------------------------------------------------------------------------
(* Claims about what the redactor paints *)

\* The rectangle m holds the rectangle b
Holds(m, b) ==
    /\ m[1] <= b[1] /\ b[1] + b[3] <= m[1] + m[3]
    /\ m[2] <= b[2] /\ b[2] + b[4] <= m[2] + m[4]

\* A detection with non-blank text and a polygon (a list of points) of at
\* least 4 points whose bounding rectangle has positive width and height
DetectedRegion(d) ==
    /\ \E i \in DOMAIN d.text : d.text[i] \notin Whitespace
    /\ d.bboxType = "list"
    /\ Len(d.bbox) >= 4
    /\ \E i, j \in DOMAIN d.bbox : d.bbox[i][1] < d.bbox[j][1]
    /\ \E i, j \in DOMAIN d.bbox : d.bbox[i][2] < d.bbox[j][2]

=============================================================================
